---------------------------- MODULE Spec2Model ----------------------------
(***************************************************************************)
(* Model of easybuild/framework/easyconfig/types.py: the type matcher      *)
(* (is_value_of_type), the parameter checker (check_type_of_param_value),  *)
(* the converter (convert_value_type) and the domain coercions             *)
(* (to_name_version_dict, to_dependency, to_dependencies).                 *)
(*                                                                         *)
(* Python values are tagged records:                                       *)
(*   [t |-> "str" | "unicode", s |-> tokens]   a text value                *)
(*   [t |-> "int", n |-> i]                    an integer                  *)
(*   [t |-> "float", f |-> <<i, half>>]        the float i or i + 0.5      *)
(*   [t |-> "bool", b |-> B]                   a boolean                   *)
(*   [t |-> "list" | "tuple", e |-> elements]  an ordered sequence         *)
(*   [t |-> "dict", items |-> <<<<k, v>>, ..>>] a mapping, its pairs in    *)
(*                                             the order .items() yields   *)
(*   [t |-> "NoneType"]                        None                        *)
(* A text value is a sequence of tokens: "," , " " and words (maximal      *)
(* runs of other characters), so that no two words are adjacent.           *)
(* A call's outcome is [exc |-> "none", msg |-> "", val |-> v] when it     *)
(* returns v and [exc |-> E, msg |-> m, val |-> None] when it raises E.    *)
(*                                                                         *)
(* The order in which a dict yields its pairs is not part of its content   *)
(* and is not fixed by it, so an input mapping comes in every order of its *)
(* pairs.  The order of a dict the code builds is never read by the code;  *)
(* it is kept as the order of insertion.  Text is ASCII and integers stay  *)
(* far below sys.maxint, so str() of a unicode value never fails and int() *)
(* never returns a long.                                                   *)
(***************************************************************************)
EXTENDS Integers, Sequences, FiniteSets, TLC

VARIABLES
    pc,     \* "idle", or "returned" once the call has ended
    fn,     \* the function called
    argv,   \* its value argument
    argt,   \* its type argument (convert_value_type, is_value_of_type)
    argk,   \* its parameter name (check_type_of_param_value)
    arga,   \* its auto_convert flag (check_type_of_param_value)
    ret     \* the call's outcome

vars == <<pc, fn, argv, argt, argk, arga, ret>>

-----------------------------------------------------------------------------
(* Bounds of the input universe *)

\* longest text value, in tokens
MaxStrLen == 3
\* longest input list or tuple
MaxSeqLen == 3
\* most keys of an input mapping
MaxDictLen == 3
\* integers 0..MaxInt
MaxInt == 2
\* longest input dependency list
MaxDepListLen == 2

-----------------------------------------------------------------------------
(* Values *)

None == [t |-> "NoneType"]
Str(toks) == [t |-> "str", s |-> toks]
Uni(toks) == [t |-> "unicode", s |-> toks]
IntV(i) == [t |-> "int", n |-> i]
FloatV(i, half) == [t |-> "float", f |-> <<i, half>>]
BoolV(b) == [t |-> "bool", b |-> b]
ListV(elems) == [t |-> "list", e |-> elems]
TupleV(elems) == [t |-> "tuple", e |-> elems]
DictV(its) == [t |-> "dict", items |-> its]

Ok(v) == [exc |-> "none", msg |-> "", val |-> v]
Raise(e, m) == [exc |-> e, msg |-> m, val |-> None]
Raised(r) == r.exc # "none"

\* "r, then K of what r returned": an exception r raised propagates
Bind(r, K(_)) == IF Raised(r) THEN r ELSE K(r.val)

\* the outcomes rs of a list comprehension, evaluated in order: the first
\* exception propagates, otherwise the values returned
Collect(rs) ==
    IF \E i \in 1..Len(rs) : Raised(rs[i])
    THEN rs[CHOOSE i \in 1..Len(rs) : Raised(rs[i]) /\ \A j \in 1..(i - 1) : ~Raised(rs[j])]
    ELSE Ok([i \in 1..Len(rs) |-> rs[i].val])

IsText(v) == v.t \in {"str", "unicode"}
IsSeq(v) == v.t \in {"list", "tuple"}

\* the classes a value of runtime class c is an instance of
Bases(c) ==
    CASE c = "str" -> {"str", "basestring", "object"}
      [] c = "unicode" -> {"unicode", "basestring", "object"}
      [] c = "bool" -> {"bool", "int", "object"}
      [] OTHER -> {c, "object"}

\* isinstance(value, cls) for a class cls
isinstance(value, cls) == cls \in Bases(value.t)

-----------------------------------------------------------------------------
(* Text values *)

Seps == {",", " "}
Words == {"gcc", "2"}
IsWord(tok) == tok \notin Seps

\* a + b on token sequences: the last word of a and the first of b join
Cat(a, b) ==
    IF a # <<>> /\ b # <<>> /\ IsWord(a[Len(a)]) /\ IsWord(b[1])
    THEN SubSeq(a, 1, Len(a) - 1) \o <<a[Len(a)] \o b[1]>> \o SubSeq(b, 2, Len(b))
    ELSE a \o b

\* s.strip()
RECURSIVE strip(_)
strip(s) ==
    IF s = <<>> THEN s
    ELSE IF s[1] = " " THEN strip(Tail(s))
    ELSE IF s[Len(s)] = " " THEN strip(SubSeq(s, 1, Len(s) - 1))
    ELSE s

\* s.split(','): the comma-free pieces of s, in order (one piece for no comma)
RECURSIVE split(_)
split(s) ==
    IF \A i \in 1..Len(s) : s[i] # "," THEN <<s>>
    ELSE LET i == CHOOSE j \in 1..Len(s) : s[j] = "," /\ \A k \in 1..(j - 1) : s[k] # ","
         IN <<SubSeq(s, 1, i - 1)>> \o split(SubSeq(s, i + 1, Len(s)))

\* sep.join(parts) on token sequences
RECURSIVE join(_, _)
join(sep, parts) ==
    IF parts = <<>> THEN <<>>
    ELSE IF Len(parts) = 1 THEN parts[1]
    ELSE Cat(Cat(parts[1], sep), join(sep, Tail(parts)))

\* the integer a word spells, or -1
ParseInt(w) ==
    IF \E i \in 0..MaxInt : ToString(i) = w
    THEN CHOOSE i \in 0..MaxInt : ToString(i) = w
    ELSE -1

FloatWord(f) == ToString(f[1]) \o (IF f[2] THEN ".5" ELSE ".0")

\* repr(v)
RECURSIVE repr(_)
ReprItem(it) == Cat(Cat(<<"'" \o it[1] \o "'">>, <<":", " ">>), repr(it[2]))
repr(v) ==
    CASE v.t = "str" -> Cat(Cat(<<"'">>, v.s), <<"'">>)
      [] v.t = "unicode" -> Cat(Cat(<<"u'">>, v.s), <<"'">>)
      [] v.t = "int" -> <<ToString(v.n)>>
      [] v.t = "float" -> <<FloatWord(v.f)>>
      [] v.t = "bool" -> <<IF v.b THEN "True" ELSE "False">>
      [] v.t = "NoneType" -> <<"None">>
      [] v.t = "list" ->
            Cat(Cat(<<"[">>, join(<<",", " ">>, [i \in 1..Len(v.e) |-> repr(v.e[i])])), <<"]">>)
      [] v.t = "tuple" ->
            Cat(Cat(<<"(">>, join(<<",", " ">>, [i \in 1..Len(v.e) |-> repr(v.e[i])])),
                IF Len(v.e) = 1 THEN <<",", ")">> ELSE <<")">>)
      [] v.t = "dict" ->
            Cat(Cat(<<"{">>, join(<<",", " ">>, [i \in 1..Len(v.items) |-> ReprItem(v.items[i])])),
                <<"}">>)

\* the builtin str(v)
str(v) == IF IsText(v) THEN Ok(Str(v.s)) ELSE Ok(Str(repr(v)))

\* int(w) for a text value stripped to w
IntOfText(w) ==
    IF Len(w) = 1 /\ ParseInt(w[1]) >= 0
    THEN Ok(IntV(ParseInt(w[1])))
    ELSE Raise("ValueError", "invalid literal for int()")

\* the builtin int(v)
int(v) ==
    CASE v.t = "int" -> Ok(v)
      [] v.t = "bool" -> Ok(IntV(IF v.b THEN 1 ELSE 0))
      [] v.t = "float" -> Ok(IntV(v.f[1]))
      [] IsText(v) -> IntOfText(strip(v.s))
      [] OTHER -> Raise("TypeError", "int() argument must be a string or a number")

\* float(w) for a text value stripped to w
FloatOfText(w) ==
    IF Len(w) = 1 /\ ParseInt(w[1]) >= 0
    THEN Ok(FloatV(ParseInt(w[1]), FALSE))
    ELSE IF Len(w) = 1 /\ \E f \in (0..MaxInt) \X BOOLEAN : FloatWord(f) = w[1]
    THEN Ok([t |-> "float", f |-> CHOOSE f \in (0..MaxInt) \X BOOLEAN : FloatWord(f) = w[1]])
    ELSE Raise("ValueError", "could not convert string to float")

\* the builtin float(v)
float(v) ==
    CASE v.t = "float" -> Ok(v)
      [] v.t = "int" -> Ok(FloatV(v.n, FALSE))
      [] v.t = "bool" -> Ok(FloatV(IF v.b THEN 1 ELSE 0, FALSE))
      [] IsText(v) -> FloatOfText(strip(v.s))
      [] OTHER -> Raise("TypeError", "float() argument must be a string or a number")

-----------------------------------------------------------------------------
(* Type specifications and registries *)

\* a Python class used as a type specification
Cls(c) == [cls |-> c]
\* a 2-tuple (parent type, tuple of (requirement, value) pairs)
Compound(parent, reqs) == [parent |-> parent, reqs |-> reqs]

IsCls(ts) == DOMAIN ts = {"cls"}

\* requirement names, in sorted() order
ReqNameOrder == <<"key_types", "opt_keys", "required_keys", "value_types">>

\* dict2tuple(dict_value): the (key, value) pairs sorted by key; a list value
\* and a tuple value are both a TLA+ tuple here
dict2tuple(dict_value) ==
    LET present == SelectSeq(ReqNameOrder, LAMBDA n : n \in DOMAIN dict_value)
    IN [i \in 1..Len(present) |-> <<present[i], dict_value[present[i]]>>]

NAME_VERSION_DICT ==
    Compound(Cls("dict"), dict2tuple([required_keys |-> <<"name", "version">>,
                                      opt_keys |-> <<>>,
                                      value_types |-> <<Cls("str")>>]))

DEPENDENCY_DICT ==
    Compound(Cls("dict"), dict2tuple([opt_keys |-> <<"versionsuffix", "toolchain">>,
                                      required_keys |-> <<"name", "version">>]))

DEPENDENCIES == Compound(Cls("list"), <<<<"value_types", <<DEPENDENCY_DICT>>>>>>)

CHECKABLE_TYPES == <<NAME_VERSION_DICT, DEPENDENCIES, DEPENDENCY_DICT>>

EASY_TYPES == <<Cls("basestring"), Cls("dict"), Cls("int"), Cls("list"), Cls("str"), Cls("tuple")>>

\* TYPES: parameter name -> expected type
TYPES ==
    [k \in {"dependencies", "name", "toolchain", "version"} |->
        CASE k = "dependencies" -> DEPENDENCIES
          [] k = "name" -> Cls("basestring")
          [] k = "toolchain" -> NAME_VERSION_DICT
          [] k = "version" -> Cls("basestring")]

\* the keys of TYPE_CONVERSION_FUNCTIONS
ConversionTypes ==
    {Cls("basestring"), Cls("float"), Cls("int"), Cls("str"), DEPENDENCIES, NAME_VERSION_DICT}

\* x in a_list
InList(x, list) == \E i \in 1..Len(list) : list[i] = x

-----------------------------------------------------------------------------
(* is_value_of_type *)

KeysOf(d) == [i \in 1..Len(d.items) |-> d.items[i][1]]
ValuesOf(d) == [i \in 1..Len(d.items) |-> d.items[i][2]]
KeySet(d) == {d.items[i][1] : i \in 1..Len(d.items)}

\* dict(expected_type[1]).get-style access
HasReq(reqs, name) == \E i \in 1..Len(reqs) : reqs[i][1] = name
ReqOf(reqs, name) == reqs[CHOOSE i \in 1..Len(reqs) : reqs[i][1] = name][2]

RECURSIVE is_value_of_type(_, _)

\* any(is_value_of_type(el, t) for t in types): a generator, so it stops at
\* the first t that matches
RECURSIVE AnyOfTypes(_, _, _)
AnyOfTypes(el, types, i) ==
    IF i > Len(types) THEN Ok(BoolV(FALSE))
    ELSE Bind(is_value_of_type(el, types[i]),
              LAMBDA ok : IF ok.b THEN Ok(ok) ELSE AnyOfTypes(el, types, i + 1))

\* all([any(...) for el in els]): the list is built in full, then all()
AllOfTypes(els, types) ==
    Bind(Collect([i \in 1..Len(els) |-> AnyOfTypes(els[i], types, 1)]),
         LAMBDA oks : Ok(BoolV(\A i \in 1..Len(oks) : oks[i].b)))

\* DictReqChecker with the opt_keys check made against opt_keys alone
DictReqChecker_opt_keys_alone(er_key, extra_reqs, val) ==
    CASE er_key = "key_types" ->
            AllOfTypes([i \in 1..Len(val.items) |-> Str(<<val.items[i][1]>>)], ReqOf(extra_reqs, "key_types"))
      [] er_key = "opt_keys" ->
            Ok(BoolV(\A i \in 1..Len(val.items) : InList(val.items[i][1], ReqOf(extra_reqs, "opt_keys"))))
      [] er_key = "required_keys" ->
            Ok(BoolV(\A j \in 1..Len(ReqOf(extra_reqs, "required_keys")) :
                        ReqOf(extra_reqs, "required_keys")[j] \in KeySet(val)))
      [] er_key = "value_types" ->
            AllOfTypes(ValuesOf(val), ReqOf(extra_reqs, "value_types"))

\* extra_req_checkers[er_key](value) for parent type dict
DictReqChecker(er_key, extra_reqs, val) ==
    CASE er_key = "key_types" ->
            AllOfTypes([i \in 1..Len(val.items) |-> Str(<<val.items[i][1]>>)], ReqOf(extra_reqs, "key_types"))
      [] er_key = "opt_keys" ->
            IF HasReq(extra_reqs, "required_keys")
            THEN Ok(BoolV(\A i \in 1..Len(val.items) :
                        InList(val.items[i][1],
                               ReqOf(extra_reqs, "required_keys") \o ReqOf(extra_reqs, "opt_keys"))))
            ELSE Raise("KeyError", "required_keys")
      [] er_key = "required_keys" ->
            Ok(BoolV(\A j \in 1..Len(ReqOf(extra_reqs, "required_keys")) :
                        ReqOf(extra_reqs, "required_keys")[j] \in KeySet(val)))
      [] er_key = "value_types" ->
            AllOfTypes(ValuesOf(val), ReqOf(extra_reqs, "value_types"))

\* extra_req_checkers[er_key](value) for parent type list
ListReqChecker(er_key, extra_reqs, val) ==
    AllOfTypes(val.e, ReqOf(extra_reqs, "value_types"))

DictReqNames == {"key_types", "opt_keys", "required_keys", "value_types"}
ListReqNames == {"value_types"}

\* one round of the loop "for er_key in extra_reqs"
CheckReq(parent_type, er_key, extra_reqs, value) ==
    IF parent_type = Cls("dict")
    THEN IF er_key \in DictReqNames
         THEN DictReqChecker(er_key, extra_reqs, value)
         ELSE Raise("EasyBuildError", "Unknown type requirement specified")
    ELSE IF er_key \in ListReqNames
         THEN ListReqChecker(er_key, extra_reqs, value)
         ELSE Raise("EasyBuildError", "Unknown type requirement specified")

\* the loop "for er_key in extra_reqs: ... type_ok &= check_ok"
RECURSIVE CheckReqs(_, _, _, _, _)
CheckReqs(parent_type, extra_reqs, value, i, type_ok) ==
    IF i > Len(extra_reqs) THEN Ok(BoolV(type_ok))
    ELSE Bind(CheckReq(parent_type, extra_reqs[i][1], extra_reqs, value),
              LAMBDA check_ok : CheckReqs(parent_type, extra_reqs, value, i + 1, type_ok /\ check_ok.b))

is_value_of_type(value, expected_type) ==
    IF InList(expected_type, EASY_TYPES)
    THEN Ok(BoolV(isinstance(value, expected_type.cls)))
    ELSE IF InList(expected_type, CHECKABLE_TYPES)
    THEN IF isinstance(value, expected_type.parent.cls)
         THEN IF expected_type.parent \in {Cls("dict"), Cls("list")}
              THEN CheckReqs(expected_type.parent, expected_type.reqs, value, 1, TRUE)
              ELSE Raise("EasyBuildError", "Don't know how to check value with parent type")
         ELSE Ok(BoolV(FALSE))
    ELSE Raise("EasyBuildError", "Don't know how to check whether specified value is of type")

-----------------------------------------------------------------------------
(* Domain coercions *)

\* a dict literal {'name': n, 'version': v}
NameVersion(n, v) == DictV(<<<<"name", n>>, <<"version", v>>>>)

\* StripElem without the strip
StripElem_no_strip(el) ==
    IF IsText(el) THEN Ok(el)
    ELSE Raise("AttributeError", "object has no attribute 'strip'")

\* el.strip() for a list element: only text values have the method
StripElem(el) ==
    IF IsText(el) THEN Ok([el EXCEPT !.s = strip(el.s)])
    ELSE Raise("AttributeError", "object has no attribute 'strip'")

\* spec.split(',') as a list value
SplitText(spec) == ListV([i \in 1..Len(split(spec.s)) |-> [spec EXCEPT !.s = split(spec.s)[i]]])

\* to_name_version_dict once a text value has been split
NameVersionOf(spec) ==
    IF isinstance(spec, "list")
    THEN IF Len(spec.e) = 2
         THEN Bind(StripElem(spec.e[1]),
                   LAMBDA n : Bind(StripElem(spec.e[2]), LAMBDA v : Ok(NameVersion(n, v))))
         ELSE Raise("EasyBuildError", "Can not convert list to name and version dict. Expected 2 elements")
    ELSE IF isinstance(spec, "dict")
    THEN IF KeySet(spec) = {"name", "version"}
         THEN Ok(spec)
         ELSE Raise("EasyBuildError", "Incorrect set of keys in provided dictionary, should be only name/version")
    ELSE Raise("EasyBuildError", "Conversion to name and version dict is not supported")

to_name_version_dict(spec) ==
    NameVersionOf(IF isinstance(spec, "basestring") THEN SplitText(spec) ELSE spec)

\* d[k] = v on the pairs of a dict: an existing key keeps its place
SetItem(its, k, v) ==
    IF \E i \in 1..Len(its) : its[i][1] = k
    THEN [i \in 1..Len(its) |-> IF its[i][1] = k THEN <<k, v>> ELSE its[i]]
    ELSE Append(its, <<k, v>>)

HasKey(its, k) == \E i \in 1..Len(its) : its[i][1] = k

\* DepItem that lets every free key set name and version
DepItem_any_free_key(depspec, k, value, found_name_version) ==
    IF k \in {"name", "version", "versionsuffix"}
    THEN Ok(SetItem(depspec, k, value))
    ELSE IF k = "toolchain"
    THEN Bind(to_name_version_dict(value), LAMBDA nv : Ok(SetItem(depspec, "toolchain", nv)))
    ELSE Ok(SetItem(SetItem(depspec, "name", Str(<<k>>)), "version", value))

\* one round of the loop "for key, value in dep.items()": depspec after it
DepItem(depspec, k, value, found_name_version) ==
    IF k \in {"name", "version", "versionsuffix"}
    THEN Ok(SetItem(depspec, k, value))
    ELSE IF k = "toolchain"
    THEN Bind(to_name_version_dict(value), LAMBDA nv : Ok(SetItem(depspec, "toolchain", nv)))
    ELSE IF ~found_name_version
    THEN Ok(SetItem(SetItem(depspec, "name", Str(<<k>>)), "version", value))
    ELSE Raise("EasyBuildError", "Found unexpected (key, value) pair")

\* the loop "for key, value in dep.items()" from pair i on, and the check
\* that follows it
RECURSIVE DepItemsLoop(_, _, _, _)
DepItemsLoop(its, i, depspec, found_name_version) ==
    IF i > Len(its)
    THEN IF ~found_name_version
         THEN Raise("EasyBuildError", "Can not parse dependency without name and version")
         ELSE Ok(DictV(depspec))
    ELSE Bind(DepItem(depspec, its[i][1], its[i][2], found_name_version),
              LAMBDA d : DepItemsLoop(its, i + 1, d,
                                      IF HasKey(d, "name") /\ HasKey(d, "version")
                                      THEN TRUE ELSE found_name_version))

\* the branch of to_dependency for the "old" format
DepFromSeq(dep) ==
    LET d2 == IF Len(dep.e) >= 2
              THEN SetItem(SetItem(<<>>, "name", dep.e[1]), "version", dep.e[2])
              ELSE <<>>
        d3 == IF Len(dep.e) >= 3 THEN SetItem(d2, "versionsuffix", dep.e[3]) ELSE d2
        d4 == IF Len(dep.e) >= 4 THEN SetItem(d3, "toolchain", dep.e[4]) ELSE d3
    IN Ok(DictV(d4))

to_dependency(dep) ==
    IF isinstance(dep, "dict") THEN DepItemsLoop(dep.items, 1, <<>>, FALSE)
    ELSE IF isinstance(dep, "tuple") \/ isinstance(dep, "list") THEN DepFromSeq(dep)
    ELSE Raise("EasyBuildError", "Can not convert to dependency dict")

\* what "for dep in dep_list" yields; iterating a text value yields its
\* characters, here its tokens
Iterable(v) == IsSeq(v) \/ IsText(v) \/ v.t = "dict"
Iterate(v) ==
    CASE IsSeq(v) -> v.e
      [] IsText(v) -> [i \in 1..Len(v.s) |-> [v EXCEPT !.s = <<v.s[i]>>]]
      [] v.t = "dict" -> [i \in 1..Len(v.items) |-> Str(<<v.items[i][1]>>)]

\* to_dependencies that leaves out the elements to_dependency fails for
to_dependencies_skip_failed(dep_list) ==
    IF ~Iterable(dep_list) THEN Raise("TypeError", "object is not iterable")
    ELSE Bind(Collect(SelectSeq([i \in 1..Len(Iterate(dep_list)) |-> to_dependency(Iterate(dep_list)[i])],
                                LAMBDA r : ~Raised(r))),
              LAMBDA deps : Ok(ListV(deps)))

to_dependencies(dep_list) ==
    IF ~Iterable(dep_list) THEN Raise("TypeError", "object is not iterable")
    ELSE Bind(Collect([i \in 1..Len(Iterate(dep_list)) |-> to_dependency(Iterate(dep_list)[i])]),
              LAMBDA deps : Ok(ListV(deps)))

-----------------------------------------------------------------------------
(* convert_value_type and check_type_of_param_value *)

\* TYPE_CONVERSION_FUNCTIONS[typ](val)
ConversionFunction(typ, val) ==
    CASE typ = Cls("basestring") -> str(val)
      [] typ = Cls("float") -> float(val)
      [] typ = Cls("int") -> int(val)
      [] typ = Cls("str") -> str(val)
      [] typ = DEPENDENCIES -> to_dependencies(val)
      [] typ = NAME_VERSION_DICT -> to_name_version_dict(val)

\* the builtin isinstance(res, typ), typ a class or a (nested) tuple of
\* classes: the members are tried in turn, and a member that is neither a
\* class nor a tuple (a requirement name) is a TypeError
IsInstanceOfSpec(res, typ) ==
    IF IsCls(typ) THEN Ok(BoolV(isinstance(res, typ.cls)))
    ELSE IF isinstance(res, typ.parent.cls) THEN Ok(BoolV(TRUE))
    ELSE IF typ.reqs = <<>> THEN Ok(BoolV(FALSE))
    ELSE Raise("TypeError", "isinstance() arg 2 must be a class, type, or tuple of classes and types")

\* the check of the conversion function's outcome
VerifyConverted(converted, typ) ==
    IF Raised(converted)
    THEN Raise("EasyBuildError", "Converting type failed")
    ELSE Bind(IsInstanceOfSpec(converted.val, typ),
              LAMBDA ok : IF ok.b THEN converted
                          ELSE Raise("EasyBuildError", "Converting value didn't work as expected"))

\* the last two branches of convert_value_type
ConvertWithFunction(val, typ) ==
    IF typ \in ConversionTypes
    THEN VerifyConverted(ConversionFunction(typ, val), typ)
    ELSE Raise("EasyBuildError", "No conversion function available (yet) for target type")

convert_value_type(val, typ) ==
    Bind(IF InList(typ, EASY_TYPES) THEN Ok(BoolV(isinstance(val, typ.cls)))
         ELSE IF InList(typ, CHECKABLE_TYPES) THEN is_value_of_type(val, typ)
         ELSE Ok(BoolV(FALSE)),
         LAMBDA already : IF already.b THEN Ok(val) ELSE ConvertWithFunction(val, typ))

\* check_type_of_param_value that fails a parameter TYPES does not list
check_type_of_param_value_unlisted_fails(k, val, auto_convert) ==
    Bind(IF k \in DOMAIN TYPES THEN is_value_of_type(val, TYPES[k]) ELSE Ok(BoolV(FALSE)),
         LAMBDA type_ok :
            IF type_ok.b THEN Ok(TupleV(<<BoolV(TRUE), val>>))
            ELSE IF auto_convert /\ k \in DOMAIN TYPES
            THEN Bind(convert_value_type(val, TYPES[k]),
                      LAMBDA newval : Ok(TupleV(<<BoolV(TRUE), newval>>)))
            ELSE Ok(TupleV(<<BoolV(FALSE), None>>)))

check_type_of_param_value(k, val, auto_convert) ==
    Bind(IF k \in DOMAIN TYPES THEN is_value_of_type(val, TYPES[k]) ELSE Ok(BoolV(TRUE)),
         LAMBDA type_ok :
            IF type_ok.b THEN Ok(TupleV(<<BoolV(TRUE), val>>))
            ELSE IF auto_convert
            THEN Bind(convert_value_type(val, TYPES[k]),
                      LAMBDA newval : Ok(TupleV(<<BoolV(TRUE), newval>>)))
            ELSE Ok(TupleV(<<BoolV(FALSE), None>>)))

-----------------------------------------------------------------------------
(* The inputs the caller draws from *)

Tokens == Words \cup Seps
NormalForm(s) == \A i \in 1..(Len(s) - 1) : ~(IsWord(s[i]) /\ IsWord(s[i + 1]))
Texts == {s \in UNION {[1..m -> Tokens] : m \in 0..MaxStrLen} : NormalForm(s)}

Scalars ==
    {Str(s) : s \in Texts}
    \cup {Uni(<<>>), Uni(<<"gcc">>), Uni(<<"gcc", ",", "2">>)}
    \cup {IntV(i) : i \in 0..MaxInt}
    \cup {FloatV(i, h) : i \in 0..MaxInt, h \in BOOLEAN}
    \cup {None}

\* the elements of input lists and tuples
Leaves == {Str(<<"gcc">>), Str(<<" ", "2">>), Str(<<"gcc", ",", "2">>), Uni(<<"2">>), IntV(2)}
LeafSeqs == UNION {[1..m -> Leaves] : m \in 0..MaxSeqLen}

\* the keys of input mappings and the values each may have
Keys == {"name", "version", "versionsuffix", "toolchain", "foo", "bar"}
ValuesFor(k) ==
    CASE k = "version" -> {Str(<<"2">>), IntV(2)}
      [] k = "toolchain" -> {Str(<<"gcc", ",", " ", "2">>), Str(<<"gcc">>),
                             NameVersion(Str(<<"gcc">>), Str(<<"2">>))}
      [] k = "foo" -> {Str(<<"1.2.3">>)}
      [] OTHER -> {Str(<<"gcc">>)}
Pairs == UNION {{<<k, v>> : v \in ValuesFor(k)} : k \in Keys}
\* the pairs of a mapping, in every order .items() may yield them
ItemSeqs ==
    {its \in UNION {[1..m -> Pairs] : m \in 0..MaxDictLen} :
        \A i, j \in 1..Len(its) : its[i][1] = its[j][1] => i = j}

\* the elements of input dependency lists
DepElems ==
    {DictV(<<<<"foo", Str(<<"1.2.3">>)>>, <<"toolchain", Str(<<"gcc", ",", " ", "2">>)>>>>),
     NameVersion(Str(<<"gcc">>), Str(<<"2">>)),
     DictV(<<<<"name", Str(<<"gcc">>)>>>>),
     DictV(<<<<"foo", Str(<<"1.2.3">>)>>, <<"version", Str(<<"2">>)>>>>),
     DictV(<<<<"version", Str(<<"2">>)>>, <<"foo", Str(<<"1.2.3">>)>>>>),
     ListV(<<Str(<<"gcc">>), Str(<<"2">>)>>),
     ListV(<<Str(<<"gcc">>)>>),
     TupleV(<<Str(<<"gcc">>), Str(<<"2">>), Str(<<"-x">>), Str(<<"gcc", ",", "2">>), Str(<<"gcc">>)>>),
     Str(<<"gcc">>)}
DepSeqs == UNION {[1..m -> DepElems] : m \in 0..MaxDepListLen}

Values ==
    Scalars
    \cup {ListV(e) : e \in LeafSeqs} \cup {TupleV(e) : e \in LeafSeqs}
    \cup {DictV(its) : its \in ItemSeqs}
    \cup {ListV(e) : e \in DepSeqs} \cup {TupleV(e) : e \in DepSeqs}

\* the type specifications a caller may name: the easy types, the checkable
\* types and float, which has a conversion function only
TypeSpecs ==
    {EASY_TYPES[i] : i \in 1..Len(EASY_TYPES)}
    \cup {CHECKABLE_TYPES[i] : i \in 1..Len(CHECKABLE_TYPES)}
    \cup ConversionTypes

ParamNames == DOMAIN TYPES \cup {"nonexistent_param"}

-----------------------------------------------------------------------------
(* The caller: one call at a time *)

NoType == Cls("NoneType")

Init ==
    /\ pc = "idle"
    /\ fn = "none"
    /\ argv = None
    /\ argt = NoType
    /\ argk = ""
    /\ arga = FALSE
    /\ ret = Ok(None)

CallIsValueOfType ==
    /\ pc = "idle"
    /\ \E v \in Values, t \in TypeSpecs :
        /\ fn' = "is_value_of_type"
        /\ argv' = v
        /\ argt' = t
        /\ ret' = is_value_of_type(v, t)
    /\ pc' = "returned"
    /\ UNCHANGED <<argk, arga>>

CallCheckTypeOfParamValue ==
    /\ pc = "idle"
    /\ \E k \in ParamNames, v \in Values, a \in BOOLEAN :
        /\ fn' = "check_type_of_param_value"
        /\ argk' = k
        /\ argv' = v
        /\ arga' = a
        /\ ret' = check_type_of_param_value(k, v, a)
    /\ pc' = "returned"
    /\ UNCHANGED argt

CallConvertValueType ==
    /\ pc = "idle"
    /\ \E v \in Values, t \in TypeSpecs :
        /\ fn' = "convert_value_type"
        /\ argv' = v
        /\ argt' = t
        /\ ret' = convert_value_type(v, t)
    /\ pc' = "returned"
    /\ UNCHANGED <<argk, arga>>

\* the caller converts the value a conversion returned once more
CallConvertAgain ==
    /\ pc = "returned"
    /\ fn = "convert_value_type"
    /\ ~Raised(ret)
    /\ fn' = "convert_again"
    /\ argv' = ret.val
    /\ ret' = convert_value_type(ret.val, argt)
    /\ UNCHANGED <<pc, argt, argk, arga>>

CallToNameVersionDict ==
    /\ pc = "idle"
    /\ \E v \in Values :
        /\ fn' = "to_name_version_dict"
        /\ argv' = v
        /\ ret' = to_name_version_dict(v)
    /\ pc' = "returned"
    /\ UNCHANGED <<argt, argk, arga>>

CallToDependency ==
    /\ pc = "idle"
    /\ \E v \in Values :
        /\ fn' = "to_dependency"
        /\ argv' = v
        /\ ret' = to_dependency(v)
    /\ pc' = "returned"
    /\ UNCHANGED <<argt, argk, arga>>

CallToDependencies ==
    /\ pc = "idle"
    /\ \E v \in Values :
        /\ fn' = "to_dependencies"
        /\ argv' = v
        /\ ret' = to_dependencies(v)
    /\ pc' = "returned"
    /\ UNCHANGED <<argt, argk, arga>>

\* the caller is ready for its next call
Return ==
    /\ pc = "returned"
    /\ pc' = "idle"
    /\ fn' = "none"
    /\ argv' = None
    /\ argt' = NoType
    /\ argk' = ""
    /\ arga' = FALSE
    /\ ret' = Ok(None)

Next ==
    \/ CallIsValueOfType
    \/ CallCheckTypeOfParamValue
    \/ CallConvertValueType
    \/ CallConvertAgain
    \/ CallToNameVersionDict
    \/ CallToDependency
    \/ CallToDependencies
    \/ Return

Spec == Init /\ [][Next]_vars

-----------------------------------------------------------------------------
(* What the claims speak of *)

Returned(f) == pc = "returned" /\ fn = f

\* the value a mapping has under key k
Get(d, k) == d.items[CHOOSE i \in 1..Len(d.items) : d.items[i][1] = k][2]

\* two mappings with the same keys and the same value under each
SameMapping(d1, d2) ==
    /\ KeySet(d1) = KeySet(d2)
    /\ \A k \in KeySet(d1) : Get(d1, k) = Get(d2, k)

\* the keys to_dependency recognizes, and the other ("free") keys of a mapping
RecognizedKeys == {"name", "version", "versionsuffix", "toolchain"}
FreeKeys(d) == KeySet(d) \ RecognizedKeys

\* the compound type specifications
CompoundSpecs == {CHECKABLE_TYPES[i] : i \in 1..Len(CHECKABLE_TYPES)}

\* the atomic tags String, Integer, Float, Mapping, Sequence, Tuple
AtomicSpecs == {Cls("basestring"), Cls("int"), Cls("float"), Cls("dict"), Cls("list"), Cls("tuple")}

\* the Matcher as the specification words it: the parent shape, then every
\* declared requirement
RECURSIVE Matches(_, _)
Matches(value, T) ==
    IF IsCls(T) THEN T.cls \in Bases(value.t)
    ELSE /\ T.parent.cls \in Bases(value.t)
         /\ HasReq(T.reqs, "required_keys") =>
                \A n \in {ReqOf(T.reqs, "required_keys")[j] : j \in 1..Len(ReqOf(T.reqs, "required_keys"))} :
                    n \in KeySet(value)
         /\ HasReq(T.reqs, "opt_keys") =>
                KeySet(value) \subseteq
                    {ReqOf(T.reqs, "required_keys")[j] : j \in 1..Len(ReqOf(T.reqs, "required_keys"))}
                    \cup {ReqOf(T.reqs, "opt_keys")[j] : j \in 1..Len(ReqOf(T.reqs, "opt_keys"))}
         /\ HasReq(T.reqs, "value_types") =>
                \A el \in (IF value.t = "dict"
                           THEN {value.items[i][2] : i \in 1..Len(value.items)}
                           ELSE {value.e[i] : i \in 1..Len(value.e)}) :
                    \E j \in 1..Len(ReqOf(T.reqs, "value_types")) :
                        Matches(el, ReqOf(T.reqs, "value_types")[j])

\* a text value without its leading and trailing blanks
Trim(s) ==
    IF \A i \in 1..Len(s) : s[i] = " " THEN <<>>
    ELSE SubSeq(s, CHOOSE i \in 1..Len(s) : s[i] # " " /\ \A j \in 1..(i - 1) : s[j] = " ",
                   CHOOSE i \in 1..Len(s) : s[i] # " " /\ \A j \in (i + 1)..Len(s) : s[j] = " ")

Commas(s) == {i \in 1..Len(s) : s[i] = ","}

\* every order of the pairs its
Reorderings(its) ==
    {[i \in 1..Len(its) |-> its[p[i]]] :
        p \in {q \in [1..Len(its) -> 1..Len(its)] : \A i, j \in 1..Len(its) : q[i] = q[j] => i = j}}

\* two outcomes that are both failures, or return the same mapping
SameOutcome(r1, r2) ==
    IF Raised(r1) \/ Raised(r2) THEN Raised(r1) /\ Raised(r2)
    ELSE SameMapping(r1.val, r2.val)

-----------------------------------------------------------------------------
(* The claims *)

\* C1: whatever convert_value_type returns for a target type that has a
\* conversion function matches that type: the class itself for an atomic
\* type, the full is_value_of_type check for a compound type.
C1_ConvertedValueMatchesTarget ==
    (Returned("convert_value_type") /\ argt \in ConversionTypes /\ ~Raised(ret))
        => Matches(ret.val, argt)

\* C2: without auto_convert, check_type_of_param_value never raises; it
\* passes exactly when the parameter has no entry in TYPES or the value is of
\* the registered type; a passed value comes back unchanged, a failed one
\* unchanged or as None.
C2_CheckWithoutAutoConvert ==
    (Returned("check_type_of_param_value") /\ ~arga) =>
        /\ ~Raised(ret)
        /\ ret.val.t = "tuple" /\ Len(ret.val.e) = 2
        /\ ret.val.e[1] = BoolV(argk \notin DOMAIN TYPES
                                \/ is_value_of_type(argv, TYPES[argk]) = Ok(BoolV(TRUE)))
        /\ ret.val.e[1].b => ret.val.e[2] = argv
        /\ ~ret.val.e[1].b => ret.val.e[2] \in {argv, None}

C2_Witness ==
    /\ Returned("check_type_of_param_value") /\ ~arga
    /\ argk = "toolchain" /\ argv.t = "dict"
    /\ ret = Ok(TupleV(<<BoolV(FALSE), None>>))

\* C3: for a compound type, is_value_of_type is false when the parent shape
\* differs and otherwise the conjunction of the declared requirements; a
\* mapping with name, version and a key outside the four recognized ones is
\* no DEPENDENCY_DICT, and the empty list is of type DEPENDENCIES.
C3_CompoundMatching ==
    (Returned("is_value_of_type") /\ argt \in CompoundSpecs) =>
        /\ ret = Ok(BoolV(Matches(argv, argt)))
        /\ (argt = DEPENDENCY_DICT /\ argv.t = "dict"
            /\ {"name", "version"} \subseteq KeySet(argv) /\ FreeKeys(argv) # {})
                => ret = Ok(BoolV(FALSE))
        /\ (argt = DEPENDENCIES /\ argv = ListV(<<>>)) => ret = Ok(BoolV(TRUE))

C3_Witness ==
    /\ Returned("is_value_of_type") /\ argt = DEPENDENCY_DICT /\ argv.t = "dict"
    /\ KeySet(argv) = {"name", "version", "foo"}
    /\ ret = Ok(BoolV(FALSE))

\* C4: for each of the six atomic tags, Float included, is_value_of_type
\* returns without raising, and returns true exactly when the value is of
\* the tag's class.
C4_AtomicMatching ==
    (Returned("is_value_of_type") /\ argt \in AtomicSpecs) =>
        ret = Ok(BoolV(argt.cls \in Bases(argv.t)))

\* C5: converting the value a conversion returned once more, to the same
\* target type, succeeds and returns that value.
C5_ConvertIdempotent ==
    (Returned("convert_again") /\ argt \in ConversionTypes) => ret = Ok(argv)

\* C6: to_dependency of a list or tuple returns the positional mapping when
\* the length is 2, 3 or 4, and fails for every other length.
C6_DependencyFromSequence ==
    (Returned("to_dependency") /\ IsSeq(argv)) =>
        IF Len(argv.e) \in 2..4
        THEN /\ ~Raised(ret)
             /\ KeysOf(ret.val) = SubSeq(<<"name", "version", "versionsuffix", "toolchain">>, 1, Len(argv.e))
             /\ ValuesOf(ret.val) = argv.e
        ELSE Raised(ret)

\* C7: to_dependency of a mapping fails when the mapping has more than one
\* free key, and when name and version are not both determined (by their own
\* key or by the free key); what it returns has name and version and only
\* recognized keys.
C7_DependencyFromMapping ==
    (Returned("to_dependency") /\ argv.t = "dict") =>
        /\ Cardinality(FreeKeys(argv)) > 1 => Raised(ret)
        /\ (FreeKeys(argv) = {} /\ ~({"name", "version"} \subseteq KeySet(argv))) => Raised(ret)
        /\ ~Raised(ret) =>
            /\ Cardinality(FreeKeys(argv)) <= 1
            /\ ret.val.t = "dict"
            /\ {"name", "version"} \subseteq KeySet(ret.val)
            /\ KeySet(ret.val) \subseteq RecognizedKeys

C7_Witness ==
    /\ Returned("to_dependency") /\ argv.t = "dict"
    /\ FreeKeys(argv) = {"foo"} /\ "toolchain" \in KeySet(argv)
    /\ ~Raised(ret)

\* C8: to_dependencies of a sequence fails as a whole when to_dependency
\* fails for an element, and otherwise returns a list of the same length
\* whose i-th element is to_dependency of the i-th input element.
C8_DependenciesElementwise ==
    (Returned("to_dependencies") /\ IsSeq(argv)) =>
        IF \E i \in 1..Len(argv.e) : Raised(to_dependency(argv.e[i]))
        THEN Raised(ret)
        ELSE /\ ~Raised(ret)
             /\ ret.val.t = "list"
             /\ Len(ret.val.e) = Len(argv.e)
             /\ \A i \in 1..Len(argv.e) : ret.val.e[i] = to_dependency(argv.e[i]).val

C8_Witness ==
    /\ Returned("to_dependencies") /\ argv.t = "list" /\ Len(argv.e) = 2
    /\ argv.e[1].t = "dict" /\ argv.e[2].t = "list"
    /\ ~Raised(ret)

\* C9: to_name_version_dict of the text a + "," + b and of the list [a, b],
\* a and b texts (of the same class) without a comma, return the same
\* mapping {name: trim(a), version: trim(b)}; a text with another number of
\* commas, a sequence of another length than 2 and a mapping with other keys
\* than name and version make it fail.
C9_NameVersionShapes ==
    Returned("to_name_version_dict") =>
        /\ (IsText(argv) /\ Cardinality(Commas(argv.s)) = 1) =>
            LET c == CHOOSE i \in 1..Len(argv.s) : argv.s[i] = ","
                a == [argv EXCEPT !.s = SubSeq(argv.s, 1, c - 1)]
                b == [argv EXCEPT !.s = SubSeq(argv.s, c + 1, Len(argv.s))]
            IN /\ ret = Ok(NameVersion([a EXCEPT !.s = Trim(a.s)], [b EXCEPT !.s = Trim(b.s)]))
               /\ ret = to_name_version_dict(ListV(<<a, b>>))
        /\ (argv.t = "list" /\ Len(argv.e) = 2
            /\ \A i \in 1..2 : IsText(argv.e[i]) /\ Commas(argv.e[i].s) = {}) =>
            /\ ret = Ok(NameVersion([argv.e[1] EXCEPT !.s = Trim(argv.e[1].s)],
                                    [argv.e[2] EXCEPT !.s = Trim(argv.e[2].s)]))
            /\ argv.e[1].t = argv.e[2].t =>
                ret = to_name_version_dict([argv.e[1] EXCEPT !.s = argv.e[1].s \o <<",">> \o argv.e[2].s])
        /\ (IsText(argv) /\ Cardinality(Commas(argv.s)) # 1) => Raised(ret)
        /\ (IsSeq(argv) /\ Len(argv.e) # 2) => Raised(ret)
        /\ (argv.t = "dict" /\ KeySet(argv) # {"name", "version"}) => Raised(ret)

C9_Witness ==
    /\ Returned("to_name_version_dict")
    /\ argv = ListV(<<Str(<<"gcc">>), Str(<<" ", "2">>)>>)
    /\ ret = Ok(NameVersion(Str(<<"gcc">>), Str(<<"2">>)))

\* C10: the outcome of to_dependency for a mapping is the same for every
\* order in which the mapping's pairs are processed.
C10_DependencyOrderIndependent ==
    (Returned("to_dependency") /\ argv.t = "dict") =>
        \A its \in Reorderings(argv.items) : SameOutcome(to_dependency(DictV(its)), ret)

=============================================================================
